---- MODULE Spec2Model ----
(***************************************************************************)
(* Model of the simulation engine of the $SVPERIOR tokenomics simulator    *)
(* (src/sim.py, run_simulation).                                           *)
(*                                                                         *)
(* Every quantity of run_simulation is a Python number.  The integers it   *)
(* reads from the widgets are all far below 2^53, so each of them is       *)
(* exactly a binary64 value and every operation of the loop is a binary64  *)
(* operation (IEEE 754, round to nearest, ties to even).  The model        *)
(* computes these operations bit for bit: a float is a sign, a 53-bit      *)
(* significand and a binary exponent, and the significand is kept as a     *)
(* little-endian sequence of 14-bit limbs because the model checker's own  *)
(* integers are 32 bits wide.  A result too large for binary64 is an       *)
(* infinity, a result below the smallest normal number is rounded to a     *)
(* multiple of 2^-1074, and the operations on infinities give infinities   *)
(* or NaN as IEEE 754 has them (Python raises only for a division by       *)
(* zero).  -0.0 is identified with 0.0: Python compares them equal, and no *)
(* operation of the loop tells them apart except 1/0, which raises.        *)
(***************************************************************************)
EXTENDS Integers, Sequences, FiniteSets, TLC

----------------------------------------------------------------------------
(* Natural numbers of any size: little-endian limbs, no high zero limb.    *)

LimbBits == 14
Base == 16384
MantBits == 53

Limb(a, i) == IF 1 <= i /\ i <= Len(a) THEN a[i] ELSE 0

RECURSIVE BNorm(_)
BNorm(a) ==
    IF Len(a) = 0 THEN a
    ELSE IF a[Len(a)] = 0 THEN BNorm(SubSeq(a, 1, Len(a) - 1))
    ELSE a

BFromInt(n) == BNorm(<<n % Base, (n \div Base) % Base, n \div (Base * Base)>>)

RECURSIVE BAddFrom(_, _, _, _)
BAddFrom(a, b, i, c) ==
    IF i > Len(a) /\ i > Len(b)
    THEN (IF c = 0 THEN <<>> ELSE <<c>>)
    ELSE LET s == Limb(a, i) + Limb(b, i) + c
         IN  <<s % Base>> \o BAddFrom(a, b, i + 1, s \div Base)

BAdd(a, b) == BAddFrom(a, b, 1, 0)

RECURSIVE BSubFrom(_, _, _, _)
BSubFrom(a, b, i, c) ==
    IF i > Len(a) THEN <<>>
    ELSE LET s == a[i] - Limb(b, i) - c
         IN  IF s < 0 THEN <<s + Base>> \o BSubFrom(a, b, i + 1, 1)
             ELSE <<s>> \o BSubFrom(a, b, i + 1, 0)

\* a - b for a >= b
BSub(a, b) == BNorm(BSubFrom(a, b, 1, 0))

RECURSIVE BCmpFrom(_, _, _)
BCmpFrom(a, b, i) ==
    IF i = 0 THEN 0
    ELSE IF a[i] < b[i] THEN -1
    ELSE IF a[i] > b[i] THEN 1
    ELSE BCmpFrom(a, b, i - 1)

\* -1, 0, 1 as a < b, a = b, a > b
BCmp(a, b) ==
    IF Len(a) < Len(b) THEN -1
    ELSE IF Len(a) > Len(b) THEN 1
    ELSE BCmpFrom(a, b, Len(a))

RECURSIVE BCarry(_, _, _)
BCarry(cols, i, c) ==
    IF i > Len(cols)
    THEN (IF c = 0 THEN <<>> ELSE <<c % Base>> \o BCarry(cols, i, c \div Base))
    ELSE LET s == cols[i] + c
         IN  <<s % Base>> \o BCarry(cols, i + 1, s \div Base)

BMulLimb(a, d) == BNorm(BCarry([i \in 1..Len(a) |-> a[i] * d], 1, 0))

RECURSIVE BColSum(_, _, _, _)
BColSum(a, b, k, i) ==
    IF i > Len(a) \/ i > k THEN 0
    ELSE (IF k - i + 1 <= Len(b) THEN a[i] * b[k - i + 1] ELSE 0)
         + BColSum(a, b, k, i + 1)

\* a * b, for factors of at most seven limbs (a column sum stays below 2^31)
BMul(a, b) ==
    IF Len(a) = 0 \/ Len(b) = 0 THEN <<>>
    ELSE BNorm(BCarry([k \in 1..(Len(a) + Len(b) - 1) |-> BColSum(a, b, k, 1)], 1, 0))

RECURSIVE LimbLen(_)
LimbLen(x) == IF x = 0 THEN 0 ELSE 1 + LimbLen(x \div 2)

BBitLen(a) == IF Len(a) = 0 THEN 0 ELSE (Len(a) - 1) * LimbBits + LimbLen(a[Len(a)])

\* a * 2^k
BShl(a, k) ==
    IF Len(a) = 0 THEN a
    ELSE LET q == k \div LimbBits
             r == k % LimbBits
             lo == 2 ^ (LimbBits - r)
         IN  BNorm([i \in 1..(Len(a) + q + 1) |->
                 IF i <= q THEN 0
                 ELSE (Limb(a, i - q) % lo) * (2 ^ r) + (Limb(a, i - q - 1) \div lo)])

\* floor(a / 2^k)
BShr(a, k) ==
    LET q == k \div LimbBits
        r == k % LimbBits
    IN  IF Len(a) <= q THEN <<>>
        ELSE BNorm([i \in 1..(Len(a) - q) |->
                 (a[i + q] \div (2 ^ r)) + (Limb(a, i + q + 1) % (2 ^ r)) * (2 ^ (LimbBits - r))])

\* bit j of a (bit 0 is the lowest)
BBit(a, j) == (Limb(a, (j \div LimbBits) + 1) \div (2 ^ (j % LimbBits))) % 2

\* whether some bit of a below bit k is set
BLowNonzero(a, k) ==
    \/ \E i \in 1..(k \div LimbBits) : Limb(a, i) # 0
    \/ Limb(a, (k \div LimbBits) + 1) % (2 ^ (k % LimbBits)) # 0

RECURSIVE BFixDigit(_, _, _)
BFixDigit(r, d, q) == IF BCmp(BMulLimb(d, q), r) > 0 THEN BFixDigit(r, d, q - 1) ELSE q

\* the largest q with q * d <= r, for r < d * Base
BDigit(r, d) ==
    LET n == Len(d)
        top == Limb(r, n + 1) * Base + Limb(r, n)
        est == top \div d[n]
    IN  BFixDigit(r, d, IF est > Base - 1 THEN Base - 1 ELSE est)

RECURSIVE BDivFrom(_, _, _, _, _)
BDivFrom(a, d, i, r, q) ==
    IF i = 0 THEN [quot |-> BNorm(q), rem |-> r]
    ELSE LET r1 == BNorm(<<a[i]>> \o r)
             x == BDigit(r1, d)
         IN  BDivFrom(a, d, i - 1, BSub(r1, BMulLimb(d, x)), <<x>> \o q)

\* quotient and remainder of a by d (d > 0), schoolbook long division
BDivMod(a, d) == BDivFrom(a, d, Len(a), <<>>, <<>>)

----------------------------------------------------------------------------
(* binary64.  A finite value is s * m * 2^e with s in {-1, 0, 1} and        *)
(* 2^52 <= m < 2^53 (c = "fin"; zero has s = 0 and m = <<>>); c = "inf" is  *)
(* the infinity of sign s and c = "nan" is NaN.                            *)

\* the exponents of the lowest bit of the smallest and of the largest finite value
MinExp == -1074
MaxExp == 971

FZero == [c |-> "fin", s |-> 0, e |-> 0, m |-> <<>>]
FInf(s) == [c |-> "inf", s |-> s, e |-> 0, m |-> <<>>]
FNaN == [c |-> "nan", s |-> 0, e |-> 0, m |-> <<>>]

\* s * mag * 2^e for mag < 2^53 and e >= MinExp: exact, or an overflow
FNormal(s, mag, e) ==
    LET len == BBitLen(mag)
    IN  IF len = 0 THEN FZero
        ELSE IF e - (MantBits - len) > MaxExp THEN FInf(s)
        ELSE [c |-> "fin", s |-> s, e |-> e - (MantBits - len), m |-> BShl(mag, MantBits - len)]

\* the float nearest to s * (mag + f) * 2^e, where 0 <= f < 1 and f > 0 iff
\* sticky (then mag has more than 53 bits); ties go to the even significand.
\* The lowest bit kept is bit k of mag: 53 significant bits, and no bit below
\* 2^MinExp (gradual underflow).
FRound(s, mag, e, sticky) ==
    LET len == BBitLen(mag)
        k == IF len - MantBits > MinExp - e THEN len - MantBits ELSE MinExp - e
    IN  IF k <= 0 THEN FNormal(s, mag, e)
        ELSE LET q == BShr(mag, k)
                 half == BBit(mag, k - 1) = 1
                 rest == sticky \/ BLowNonzero(mag, k - 1)
                 up == half /\ (rest \/ Limb(q, 1) % 2 = 1)
                 q2 == IF up THEN BAdd(q, <<1>>) ELSE q
             IN  IF BBitLen(q2) > MantBits
                 THEN FNormal(s, BShr(q2, 1), e + k + 1)
                 ELSE FNormal(s, q2, e + k)

\* float(n) for a Python int |n| < 2^31
FromInt(n) ==
    IF n = 0 THEN FZero
    ELSE IF n < 0 THEN FRound(-1, BFromInt(-n), 0, FALSE)
    ELSE FRound(1, BFromInt(n), 0, FALSE)

IsNaN(a) == a.c = "nan"
IsInf(a) == a.c = "inf"
IsZero(a) == a.c = "fin" /\ a.s = 0

FNeg(a) == [a EXCEPT !.s = -a.s]

FMul(a, b) ==
    IF IsNaN(a) \/ IsNaN(b) THEN FNaN
    ELSE IF IsInf(a) \/ IsInf(b)
    THEN (IF a.s = 0 \/ b.s = 0 THEN FNaN ELSE FInf(a.s * b.s))
    ELSE IF a.s = 0 \/ b.s = 0 THEN FZero
    ELSE FRound(a.s * b.s, BMul(a.m, b.m), a.e + b.e, FALSE)

\* a / b for b # 0 (Python raises ZeroDivisionError for b = 0)
FDiv(a, b) ==
    IF IsNaN(a) \/ IsNaN(b) THEN FNaN
    ELSE IF IsInf(a) THEN (IF IsInf(b) THEN FNaN ELSE FInf(a.s * b.s))
    ELSE IF IsInf(b) \/ a.s = 0 THEN FZero
    ELSE LET qr == BDivMod(<<0, 0, 0, 0>> \o BShl(a.m, 3), BShl(b.m, 3))
         IN  FRound(a.s * b.s, qr.quot, a.e - b.e - 4 * LimbBits, Len(qr.rem) # 0)

\* a + b where a.e >= b.e and both are finite and not zero
FAddOrd(a, b) ==
    LET d == a.e - b.e
    IN  IF d > 2 * MantBits THEN a
        ELSE LET x == BShl(a.m, d)
                 c == BCmp(x, b.m)
             IN  IF a.s = b.s THEN FRound(a.s, BAdd(x, b.m), b.e, FALSE)
                 ELSE IF c = 0 THEN FZero
                 ELSE IF c > 0 THEN FRound(a.s, BSub(x, b.m), b.e, FALSE)
                 ELSE FRound(b.s, BSub(b.m, x), b.e, FALSE)

FAdd(a, b) ==
    IF IsNaN(a) \/ IsNaN(b) THEN FNaN
    ELSE IF IsInf(a) THEN (IF IsInf(b) /\ a.s # b.s THEN FNaN ELSE a)
    ELSE IF IsInf(b) THEN b
    ELSE IF a.s = 0 THEN b
    ELSE IF b.s = 0 THEN a
    ELSE IF a.e >= b.e THEN FAddOrd(a, b)
    ELSE FAddOrd(b, a)

FSub(a, b) == FAdd(a, FNeg(b))

\* -1, 0, 1 as |a| < |b|, |a| = |b|, |a| > |b|, for a and b not zero and not NaN
FCmpMag(a, b) ==
    IF IsInf(a) THEN (IF IsInf(b) THEN 0 ELSE 1)
    ELSE IF IsInf(b) THEN -1
    ELSE IF a.e # b.e THEN (IF a.e < b.e THEN -1 ELSE 1)
    ELSE BCmp(a.m, b.m)

\* -1, 0, 1 as a < b, a = b, a > b, for a and b not NaN
FCmp(a, b) ==
    IF a.s # b.s THEN (IF a.s < b.s THEN -1 ELSE 1)
    ELSE IF a.s = 0 THEN 0
    ELSE a.s * FCmpMag(a, b)

\* Python's a < b and a <= b: False when either side is NaN
FLt(a, b) == ~IsNaN(a) /\ ~IsNaN(b) /\ FCmp(a, b) < 0
FLe(a, b) == ~IsNaN(a) /\ ~IsNaN(b) /\ FCmp(a, b) <= 0


----------------------------------------------------------------------------
(* The widgets' values (lines 50-70) and the locals of run_simulation.     *)

VARIABLES
    initial_aum,        \* "New AUM Added Per Month ($M)", a Python int
    monthly_growth,     \* "Monthly AUM Growth Rate (%)", a Python int
    initial_supply,     \* "Initial Token Supply", a Python int
    fee_bps,            \* "Protocol Fee (Basis Points)", a Python int
    burn_pct,           \* "Burn Rate (%)", a Python int
    initial_price,      \* "Starting Token Price ($)", a float
    liquidity_depth,    \* "Buy Pressure for 1% Move ($)", a Python int
    user_tokens,        \* "Tokens You Own", a Python int
    i,                  \* the month the loop runs next
    current_supply,
    current_price,
    total_aum,
    monthly_new_aum,
    data,               \* the records appended so far
    pc,                 \* "loop", "returned" or "raised" (ZeroDivisionError)
    df                  \* the DataFrame run_simulation returned

inputs == <<initial_aum, monthly_growth, initial_supply, fee_bps, burn_pct,
            initial_price, liquidity_depth, user_tokens>>

vars == <<initial_aum, monthly_growth, initial_supply, fee_bps, burn_pct,
          initial_price, liquidity_depth, user_tokens,
          i, current_supply, current_price, total_aum, monthly_new_aum, data, pc, df>>

months == 24
CRITICAL_SUPPLY_THRESHOLD == 1000000

\* the largest growth rate (%) enumerated for the slider of line 51
MaxGrowth == 1

\* the float literals 0.01 and 1
Hundredth == FDiv(FromInt(1), FromInt(100))
FOne == FromInt(1)

\* max(0, x)
Max0(x) == IF FLt(FZero, x) THEN x ELSE FZero

\* line 79
fee_rate == FDiv(FromInt(fee_bps), FromInt(10000))

\* line 86
SeedNewAum == FMul(FromInt(initial_aum), FromInt(1000000))

\* line 88: range(1, months + 1)
InLoop(k) == k <= months

\* mutant: the month's new AUM overwrites the total instead of adding to it
AccrueAum_Overwrite(total, new_aum) == new_aum

\* line 90
AccrueAum(total, new_aum) == FAdd(total, new_aum)

\* line 93
Revenue(new_aum) == FMul(new_aum, fee_rate)

\* mutant: the breaker also applies at exactly the threshold
BelowThreshold_Inclusive(supply) == FLe(supply, FromInt(CRITICAL_SUPPLY_THRESHOLD))

\* line 101
BelowThreshold(supply) == FLt(supply, FromInt(CRITICAL_SUPPLY_THRESHOLD))

\* lines 96-97, for price # 0
UnthrottledBurn(revenue_usd, price) ==
    FMul(FDiv(revenue_usd, price), FDiv(FromInt(burn_pct), FromInt(100)))

\* lines 96-104, for price # 0
TokensBurned(revenue_usd, price, supply) ==
    LET tokens_burned == UnthrottledBurn(revenue_usd, price)
        supply_factor == FDiv(supply, FromInt(CRITICAL_SUPPLY_THRESHOLD))
    IN  IF BelowThreshold(supply)
        THEN FMul(FMul(tokens_burned, supply_factor), Hundredth)
        ELSE tokens_burned

\* mutant: the depth leaves out the 1% of market cap
DynamicDepth_NoMarketCap(supply, price) == FromInt(liquidity_depth)

\* lines 107-110
DynamicDepth(supply, price) ==
    FAdd(FromInt(liquidity_depth), FMul(FMul(supply, price), Hundredth))

\* lines 112-113, for depth # 0
NextPrice(price, revenue_usd, depth) ==
    FMul(price, FAdd(FOne, FDiv(revenue_usd, depth)))

\* lines 116-117
NextSupply(supply, tokens_burned) == Max0(FSub(supply, tokens_burned))

\* line 120
NextNewAum(new_aum) ==
    FMul(new_aum, FAdd(FOne, FDiv(FromInt(monthly_growth), FromInt(100))))

\* line 123
PortfolioValue(price) == FMul(FromInt(user_tokens), price)

\* mutant: the total token value is taken at the starting price
TotalTokenValue_StartPrice(supply, price) == FMul(supply, initial_price)

\* line 126
TotalTokenValue(supply, price) == FMul(supply, price)

\* lines 128-139: the record of month k, from the locals as they stand there
PeriodRecord(k, total, new_aum, revenue_usd, price, supply, total_token_value, tokens_burned, depth, portfolio_value) ==
    [Month |-> k,
     TotalAUM |-> total,
     NewAUM |-> new_aum,
     Revenue |-> revenue_usd,
     TokenPrice |-> price,
     Supply |-> supply,
     TTV |-> total_token_value,
     TokensBurned |-> tokens_burned,
     MarketDepth |-> depth,
     PortfolioValue |-> portfolio_value]

\* the values enumerated for the widgets: the sliders' values lie in their
\* ranges (growth 0..20, fee 5..150, burn 0..100), the number inputs are ints
AumChoices == {0, 10, 200, 1000}
GrowthChoices == 0..MaxGrowth
SupplyChoices == {1000000, 100000000}
FeeChoices == {25, 100}
BurnChoices == {0, 50, 100}
DepthChoices == {500000}

\* the largest inflows: the price impact of every month is of the order 10^13
LargeAumChoices == {2147483647}
LargeGrowthChoices == {0, 20}
LargeSupplyChoices == {1, 100000000}
LargeFeeChoices == {150}
LargeBurnChoices == {0, 100}
LargeDepthChoices == {1}

\* lines 50-70: the widgets' values, taken from the sets given
Widgets(A, G, S, F, B, D) ==
    /\ initial_aum \in A
    /\ monthly_growth \in G
    /\ initial_supply \in S
    /\ fee_bps \in F
    /\ burn_pct \in B
    /\ initial_price = FDiv(FromInt(1), FromInt(2))
    /\ liquidity_depth \in D
    /\ user_tokens = 1000000

\* lines 74-86: the locals as the loop finds them
Entry ==
    /\ i = 1
    /\ current_supply = FromInt(initial_supply)
    /\ current_price = initial_price
    /\ total_aum = FZero
    /\ monthly_new_aum = SeedNewAum
    /\ data = <<>>
    /\ pc = "loop"
    /\ df = <<>>

Init ==
    /\ Widgets(AumChoices, GrowthChoices, SupplyChoices, FeeChoices, BurnChoices, DepthChoices)
    /\ Entry

\* lines 88-139: one iteration of the loop; a division by a zero price (line
\* 96) or by a zero depth (line 112) raises ZeroDivisionError and ends the run
\* (the depth of lines 107-110 divides nothing, so it is computed up front).
\* Each local is bound by \E over a one-element set: the value is computed
\* once, in the order of the code's statements.
Month ==
    /\ pc = "loop"
    /\ InLoop(i)
    /\ \E total \in {AccrueAum(total_aum, monthly_new_aum)} :
       \E revenue_usd \in {Revenue(monthly_new_aum)} :
       \E dynamic_depth \in {DynamicDepth(current_supply, current_price)} :
          /\ total_aum' = total
          /\ IF IsZero(current_price) \/ IsZero(dynamic_depth)
             THEN /\ pc' = "raised"
                  /\ UNCHANGED <<i, current_supply, current_price, monthly_new_aum, data>>
             ELSE \E tokens_burned \in {TokensBurned(revenue_usd, current_price, current_supply)} :
                  \E price \in {NextPrice(current_price, revenue_usd, dynamic_depth)} :
                  \E supply \in {NextSupply(current_supply, tokens_burned)} :
                  \E new_aum \in {NextNewAum(monthly_new_aum)} :
                  \E portfolio_value \in {PortfolioValue(price)} :
                  \E total_token_value \in {TotalTokenValue(supply, price)} :
                     /\ current_price' = price
                     /\ current_supply' = supply
                     /\ monthly_new_aum' = new_aum
                     /\ data' = Append(data, PeriodRecord(i, total, new_aum, revenue_usd,
                                                          price, supply, total_token_value,
                                                          tokens_burned, dynamic_depth,
                                                          portfolio_value))
                     /\ i' = i + 1
                     /\ pc' = "loop"
    /\ UNCHANGED <<inputs, df>>

\* lines 141-143: the loop is over and the records are returned
Return ==
    /\ pc = "loop"
    /\ ~InLoop(i)
    /\ pc' = "returned"
    /\ df' = data
    /\ UNCHANGED <<inputs, i, current_supply, current_price, total_aum, monthly_new_aum, data>>

Next == Month \/ Return

Spec == Init /\ [][Next]_vars

\* the same program, run on the largest inflows
InitLargeInflow ==
    /\ Widgets(LargeAumChoices, LargeGrowthChoices, LargeSupplyChoices, LargeFeeChoices, LargeBurnChoices, LargeDepthChoices)
    /\ Entry

SpecLargeInflow == InitLargeInflow /\ [][Next]_vars

----------------------------------------------------------------------------
(* What the properties below read.                                         *)

\* the constraints on a ParameterSet (the fields run_simulation reads)
ValidParameterSet ==
    /\ initial_aum >= 0
    /\ initial_supply > 0
    /\ fee_bps \in 0..10000
    /\ burn_pct \in 0..100
    /\ FLt(FZero, initial_price)
    /\ liquidity_depth > 0
    /\ user_tokens >= 0

\* supply, price and cumulative AUM at the start of period k of the records recs
StartSupply(recs, k) == IF k = 1 THEN FromInt(initial_supply) ELSE recs[k - 1].Supply
StartPrice(recs, k) == IF k = 1 THEN initial_price ELSE recs[k - 1].TokenPrice
StartAum(recs, k) == IF k = 1 THEN FZero ELSE recs[k - 1].TotalAUM

\* horizons a caller may ask for
HorizonChoices == {12, 24, 36}

----------------------------------------------------------------------------
\* C1 as stated: a run returns exactly horizonMonths records, month-indexed
\* 1..horizonMonths, for every positive horizonMonths and not only for 24.
C1_RecordsFollowHorizon ==
    \A h \in HorizonChoices :
        pc = "returned" => /\ Len(df) = h
                           /\ \A k \in 1..Len(df) : df[k].Month = k

\* C2 as stated: for every valid ParameterSet supply is >= 0 and price is > 0
\* at every period boundary and in every record.
C2_SupplyAndPriceSigns ==
    ValidParameterSet =>
        /\ FLe(FZero, current_supply)
        /\ FLt(FZero, current_price)
        /\ \A k \in 1..Len(data) : FLe(FZero, data[k].Supply) /\ FLt(FZero, data[k].TokenPrice)

\* C3: with a growth rate >= 0 and an initial new AUM > 0, cumulative AUM is
\* > 0 in the first record and strictly greater in each record than in the
\* one before.
C3_AumStrictlyIncreases ==
    (monthly_growth >= 0 /\ initial_aum > 0) =>
        \A k \in 1..Len(data) : FLt(StartAum(data, k), data[k].TotalAUM)

C3_Witness ==
    /\ monthly_growth = 1 /\ initial_aum > 0
    /\ Len(data) = 24
    /\ FLt(data[23].TotalAUM, data[24].TotalAUM)

\* C4: in every returned record, total token value is that record's supply
\* times that record's price, and the portfolio value is the holdings times
\* that record's price.
C4_DerivedValuesConsistent ==
    pc = "returned" =>
        \A k \in 1..Len(df) :
            /\ df[k].TTV = FMul(df[k].Supply, df[k].TokenPrice)
            /\ df[k].PortfolioValue = FMul(FromInt(user_tokens), df[k].TokenPrice)

C4_Witness ==
    /\ pc = "returned"
    /\ Len(df) = 24
    /\ FLt(df[24].Supply, df[1].Supply)
    /\ FLt(df[1].TokenPrice, df[24].TokenPrice)
    /\ df[24].TTV # df[1].TTV

\* C5: in every period of a returned run, the recorded burn is the unthrottled
\* burn (revenue / start price * burn_pct / 100) when the supply at the start
\* of the period is 1,000,000 or more, and the unthrottled burn times
\* (start supply / 1,000,000) times 0.01 when it is less.
C5_CircuitBreaker ==
    pc = "returned" =>
        \A k \in 1..Len(df) :
            \E unthrottled \in {FMul(FDiv(df[k].Revenue, StartPrice(df, k)),
                                     FDiv(FromInt(burn_pct), FromInt(100)))} :
            \E factor \in {FDiv(StartSupply(df, k), FromInt(1000000))} :
                IF FLt(StartSupply(df, k), FromInt(1000000))
                THEN df[k].TokensBurned = FMul(FMul(unthrottled, factor), Hundredth)
                ELSE df[k].TokensBurned = unthrottled

\* a run that starts at exactly 1,000,000 tokens: period 1 burns unthrottled,
\* period 2 starts below the threshold and burns throttled
C5_Witness ==
    /\ pc = "returned"
    /\ initial_supply = 1000000
    /\ FLt(FZero, df[1].TokensBurned)
    /\ FLt(FZero, df[1].Supply)
    /\ FLt(df[1].Supply, FromInt(1000000))
    /\ FLt(FZero, df[2].TokensBurned)
    /\ FLt(df[2].TokensBurned, df[1].TokensBurned)

\* C6: the literal scenario's first period gives revenue 25,000, burn 25,000,
\* market depth 1,000,000, price 0.5125 and supply 99,975,000.
LiteralScenario ==
    /\ initial_aum = 10
    /\ monthly_growth = 1
    /\ initial_supply = 100000000
    /\ fee_bps = 25
    /\ burn_pct = 50
    /\ initial_price = FDiv(FromInt(1), FromInt(2))
    /\ liquidity_depth = 500000

C6_LiteralFirstPeriod ==
    (LiteralScenario /\ Len(data) >= 1) =>
        /\ data[1].Revenue = FromInt(25000)
        /\ data[1].TokensBurned = FromInt(25000)
        /\ data[1].MarketDepth = FromInt(1000000)
        /\ data[1].TokenPrice = FDiv(FromInt(5125), FromInt(10000))
        /\ data[1].Supply = FromInt(99975000)

C6_Witness == LiteralScenario /\ Len(data) = 1 /\ data[1].Month = 1

\* C7 as stated: each record's new-AUM field is the amount added to cumulative
\* AUM in that record's period, and the record's revenue is that field times
\* fee_bps / 10000.
C7_NewAumIsThisMonths ==
    \A k \in 1..Len(data) :
        /\ data[k].TotalAUM = FAdd(StartAum(data, k), data[k].NewAUM)
        /\ data[k].Revenue = FMul(data[k].NewAUM, FDiv(FromInt(fee_bps), FromInt(10000)))

\* C8 as stated: for a valid ParameterSet the burn never drives the supply to
\* exactly zero.
C8_SupplyNeverZero ==
    ValidParameterSet =>
        /\ FLt(FZero, current_supply)
        /\ \A k \in 1..Len(data) : FLt(FZero, data[k].Supply)

\* C9 as stated: for every valid ParameterSet the price never decreases from
\* one period to the next, starting from the initial price.
C9_PriceNeverDecreases ==
    ValidParameterSet =>
        \A k \in 1..Len(data) : FLe(StartPrice(data, k), data[k].TokenPrice)

\* C10 as stated: in every period the supply goes down by exactly the recorded
\* burn (the record's supply is the start supply minus the recorded burn),
\* also in a period where the floor applies.
C10_BurnConserved ==
    \A k \in 1..Len(data) :
        data[k].Supply = FSub(StartSupply(data, k), data[k].TokensBurned)

====
